---- MODULE Spec2Model ----
(***************************************************************************)
(* Model of VMwareCloudDirectorNSXMigratorCleanup.run()                    *)
(* (src/src/vcdNSXMigratorCleanup.py): the clean-up workflow that runs     *)
(* after an Org VDC was migrated from an NSX-V backed provider VDC to an   *)
(* NSX-T backed one.  run() is one try block of 22 calls on two remote     *)
(* clients (vcdObj, nsxtObj); `except Exception: raise` ends the run at    *)
(* the first call that raises.                                             *)
(*                                                                         *)
(* pc is the statement run() executes next, calls is the log of the        *)
(* remote calls made so far (operation, arguments, exception raised),      *)
(* error is the exception run() propagated, locals holds the local         *)
(* variables of run().  vcd is the state of the remote Cloud Director the  *)
(* calls answer from, invocation counts the invocations of run().          *)
(***************************************************************************)
EXTENDS Integers, Sequences, FiniteSets, TLC

VARIABLES pc, calls, error, vcd, locals, invocation

vars == <<pc, calls, error, vcd, locals, invocation>>

----------------------------------------------------------------------------
(* Bounds of the edge gateway payloads the remote side may hold *)

MaxGateways == 2
MaxUplinks == 2
MaxSubnets == 2

\* how many times run() is invoked on the same remote side
MaxRuns == 2

----------------------------------------------------------------------------
(* Configuration: vcdDetails (lines 43-46, 70, 85) *)

orgName == "org1"
sourceOrgVDCName == <<"vdc1">>
sourceExternalNetworkName == "extNetV"
NSXVProviderVDCName == "pvdcV"
NSXTProviderVDCName == "pvdcT"

\* sourceOrgVDCName + '-t' (lines 89-90)
targetOrgVDCName == sourceOrgVDCName \o <<"-t">>

\* a local variable that is not bound yet
None == "None"

\* the value of pc once run() has returned, and once it has raised
Returned == "returned"
Raised == "raised"

----------------------------------------------------------------------------
(* The remote Cloud Director *)

ProviderVDCNames == {NSXVProviderVDCName, NSXTProviderVDCName}
OrgVDCIds == {"vdcS", "vdcT"}

otherExternalNetworkName == "extNetOther"

\* two lists of IP ranges: ['ipRanges']['values'] of a subnet
RangesA == <<"192.168.1.10-192.168.1.20">>
RangesB == <<"192.168.2.10-192.168.2.20", "192.168.2.30-192.168.2.40">>
RangeLists == {<<>>, RangesA, RangesB}

SeqsUpTo(S, n) == UNION {[1..k -> S] : k \in 0..n}

Subnet(r) == [ipRanges |-> [values |-> r]]
Uplink(n, s) == [uplinkName |-> n, subnets |-> [values |-> s]]
Gateway(u) == [edgeGatewayUplinks |-> u]
Payload(g) == [values |-> g]

Subnets == {Subnet(r) : r \in RangeLists}

\* uplinks with at most one subnet
ShortUplinks ==
    {Uplink(sourceExternalNetworkName, s) : s \in SeqsUpTo(Subnets, 1)}
    \cup {Uplink(otherExternalNetworkName, <<Subnet(RangesB)>>)}

\* up to MaxGateways edge gateways with at most one uplink each
WidePayloads ==
    {Payload(g) : g \in SeqsUpTo({Gateway(u) : u \in SeqsUpTo(ShortUplinks, 1)}, MaxGateways)}

\* one edge gateway with up to MaxUplinks uplinks
UplinkPayloads ==
    {Payload(<<Gateway(u)>>) : u \in SeqsUpTo(ShortUplinks, MaxUplinks)}

\* one edge gateway whose uplink to the configured external network has up to
\* MaxSubnets subnets
SubnetPayloads ==
    {Payload(<<Gateway(<<Uplink(sourceExternalNetworkName, s)>>)>>) : s \in SeqsUpTo(Subnets, MaxSubnets)}

\* two edge gateways of two uplinks of two subnets each
DeepUplinks ==
    {Uplink(n, s) : n \in {sourceExternalNetworkName, otherExternalNetworkName},
                    s \in [1..2 -> {Subnet(<<>>), Subnet(RangesA)}]}

DeepPayloads ==
    {Payload(g) : g \in [1..2 -> {Gateway(u) : u \in [1..2 -> DeepUplinks]}]}

\* what getOrgVDCEdgeGateway may return: {'values': [edge gateway, ...]}
Payloads == WidePayloads \cup UplinkPayloads \cup SubnetPayloads \cup DeepPayloads

\* a few payloads for the runs that explore every configuration
SamplePayloads ==
    { Payload(<<Gateway(<<Uplink(sourceExternalNetworkName, <<Subnet(RangesA)>>)>>)>>),
      Payload(<<Gateway(<<Uplink(otherExternalNetworkName, <<Subnet(RangesB)>>)>>)>>),
      Payload(<<Gateway(<<Uplink(sourceExternalNetworkName, <<Subnet(<<>>)>>)>>)>>),
      Payload(<<>>) }

\* what getOrgVDCNetworks may return for the target Org VDC
NetworkLists == {<<>>, <<"net1-v2t">>, <<"net1-v2t", "net2-v2t">>}

\* a state of the remote Cloud Director: the backing of the provider VDCs
\* (p) and of the Org VDCs (b), whether the target Org VDC is enabled, whether
\* media is attached to one of its VMs, the source edge gateways, the target
\* Org VDC networks
VCDState(p, b, en, m, eg, nw) ==
    [ providerVDCs |-> p,
      orgVDCs |-> [id \in OrgVDCIds |->
                      [ name |-> IF id = "vdcS" THEN sourceOrgVDCName ELSE targetOrgVDCName,
                        nsxt |-> b[id],
                        enabled |-> IF id = "vdcS" THEN FALSE ELSE en,
                        exists |-> TRUE ]],
      media |-> m,
      edgeGateways |-> eg,
      networks |-> nw ]

----------------------------------------------------------------------------
(* What the remote operations answer.  The bodies of VCloudDirectorOperations
   and NSXTOperations are outside this file; their results follow the
   operation contracts. *)

NoError == "none"

OrgUrlOf(name) == "url-" \o name

ProviderVDCIdOf(name) == "id-" \o name

\* getProviderVDCId(name) -> (provider VDC id, isNSXTbacked)
getProviderVDCId(name) == <<ProviderVDCIdOf(name), vcd.providerVDCs[name]>>

\* getOrgVDCDetails(orgUrl, name, ...) -> the ids of the Org VDCs of that name
getOrgVDCDetails(name) ==
    {id \in OrgVDCIds : vcd.orgVDCs[id].exists /\ vcd.orgVDCs[id].name = name}

\* validateOrgVDCNSXbacking raises unless the Org VDC is backed as the flag says
BackingMismatch(orgVDCId, isNSXT) == vcd.orgVDCs[orgVDCId].nsxt # isNSXT

\* validateTargetOrgVDCState raises unless the Org VDC is enabled
Disabled(orgVDCId) == ~ vcd.orgVDCs[orgVDCId].enabled

\* validateVappVMsMediaState raises when media is attached and raiseError is set
MediaViolation(orgVDCId, raiseError) == vcd.media /\ raiseError

\* the remote side after deleteNsxVBackedOrgVDCEdgeGateways returned: the
\* source Org VDC has no edge gateway left
EdgeGatewaysDeleted(v) == [v EXCEPT !.edgeGateways = Payload(<<>>)]

\* the remote side after deleteOrgVDC(orgVDCId) returned
OrgVDCDeleted(v, orgVDCId) == [v EXCEPT !.orgVDCs[orgVDCId].exists = FALSE]

\* the remote side after renameOrgVDC(name, orgVDCId) returned
OrgVDCRenamed(v, name, orgVDCId) == [v EXCEPT !.orgVDCs[orgVDCId].name = name]

\* the outcomes of a remote call: it returns, or raises its error; a call
\* whose precondition is violated raises
Outcomes(err, violated) == IF violated THEN {err} ELSE {NoError, err}

----------------------------------------------------------------------------
(* run(), lines 41-152 *)

\* as Call, but the except clause raises a new Exception in place of the one
\* it caught
CallWrapped(op, args, outcome, nxt) ==
    /\ calls' = Append(calls, [op |-> op, args |-> args, raised |-> outcome])
    /\ IF outcome = NoError
         THEN pc' = nxt /\ error' = error
         ELSE pc' = Raised /\ error' = "Exception"

\* one remote call inside the try block: the call is made; when it returns,
\* run() goes on with the statement nxt, when it raises, the except clause
\* re-raises the exception and run() ends
Call(op, args, outcome, nxt) ==
    /\ calls' = Append(calls, [op |-> op, args |-> args, raised |-> outcome])
    /\ IF outcome = NoError
         THEN pc' = nxt /\ error' = error
         ELSE pc' = Raised /\ error' = outcome

\* the local variable v is bound to val when the call returned
Bind(v, val, outcome) ==
    locals' = IF outcome = NoError THEN [locals EXCEPT ![v] = val] ELSE locals

InitLocals ==
    [ orgUrl |-> None, sourceProviderVDCId |-> None, isNSXTbacked |-> None,
      sourceOrgVDCId |-> None, edgeGatewayDetails |-> None,
      targetProviderVDCId |-> None, targetOrgVDCId |-> None,
      orgVDCNetworkList |-> None ]

InitRun ==
    /\ invocation = 1
    /\ pc = "vcdLogin"
    /\ calls = <<>>
    /\ error = NoError
    /\ locals = InitLocals

\* every configuration of the remote side, a few edge gateway payloads
Init ==
    /\ InitRun
    /\ vcd \in { VCDState(p, b, en, m, eg, nw) :
                   p \in [ProviderVDCNames -> BOOLEAN], b \in [OrgVDCIds -> BOOLEAN],
                   en \in BOOLEAN, m \in BOOLEAN,
                   eg \in SamplePayloads, nw \in NetworkLists }

\* the configuration the migration leaves behind (source NSX-V backed, target
\* NSX-T backed and enabled, no media attached), every edge gateway payload
InitIP ==
    /\ InitRun
    /\ vcd \in { VCDState(p, b, TRUE, FALSE, eg, <<"net1-v2t">>) :
                   p \in {[n \in ProviderVDCNames |-> n = NSXTProviderVDCName]},
                   b \in {[id \in OrgVDCIds |-> id = "vdcT"]},
                   eg \in Payloads }

vcdLogin ==
    /\ pc = "vcdLogin"
    /\ \E e \in Outcomes("AuthError", FALSE) :
         Call("vcdLogin", <<>>, e, "getComputeManagers")
    /\ UNCHANGED <<vcd, locals, invocation>>

getComputeManagers ==
    /\ pc = "getComputeManagers"
    /\ \E e \in Outcomes("Exception", FALSE) :
         Call("getComputeManagers", <<>>, e, "getOrgUrl")
    /\ UNCHANGED <<vcd, locals, invocation>>

getOrgUrl ==
    /\ pc = "getOrgUrl"
    /\ \E e \in Outcomes("NotFoundError", FALSE) :
         /\ Call("getOrgUrl", <<orgName>>, e, "getProviderVDCIdSource")
         /\ Bind("orgUrl", OrgUrlOf(orgName), e)
    /\ UNCHANGED <<vcd, invocation>>

getProviderVDCIdSource ==
    /\ pc = "getProviderVDCIdSource"
    /\ \E e \in Outcomes("NotFoundError", FALSE) :
         /\ Call("getProviderVDCId", <<NSXVProviderVDCName>>, e, "getOrgVDCDetailsSource")
         /\ locals' = IF e = NoError
                        THEN [locals EXCEPT !.sourceProviderVDCId = getProviderVDCId(NSXVProviderVDCName)[1],
                                            !.isNSXTbacked = getProviderVDCId(NSXVProviderVDCName)[2]]
                        ELSE locals
    /\ UNCHANGED <<vcd, invocation>>

getOrgVDCDetailsSource ==
    /\ pc = "getOrgVDCDetailsSource"
    /\ \E e \in Outcomes("NotFoundError", getOrgVDCDetails(sourceOrgVDCName) = {}) :
         /\ Call("getOrgVDCDetails", <<locals.orgUrl, sourceOrgVDCName, "sourceOrgVDC">>, e,
                 "validateOrgVDCNSXbackingSource")
         /\ \E id \in (IF getOrgVDCDetails(sourceOrgVDCName) = {} THEN {None} ELSE getOrgVDCDetails(sourceOrgVDCName)) :
              Bind("sourceOrgVDCId", id, e)
    /\ UNCHANGED <<vcd, invocation>>

\* as validateOrgVDCNSXbackingSource, but the flag is the literal False (the
\* source is taken to be NSX-V backed) and not the one of the provider VDC
validateOrgVDCNSXbackingSourceAssumed ==
    /\ pc = "validateOrgVDCNSXbackingSource"
    /\ \E e \in Outcomes("ValidationError", BackingMismatch(locals.sourceOrgVDCId, FALSE)) :
         Call("validateOrgVDCNSXbacking",
              <<locals.sourceOrgVDCId, locals.sourceProviderVDCId, FALSE>>, e,
              "getOrgVDCEdgeGateway")
    /\ UNCHANGED <<vcd, locals, invocation>>

validateOrgVDCNSXbackingSource ==
    /\ pc = "validateOrgVDCNSXbackingSource"
    /\ \E e \in Outcomes("ValidationError", BackingMismatch(locals.sourceOrgVDCId, locals.isNSXTbacked)) :
         Call("validateOrgVDCNSXbacking",
              <<locals.sourceOrgVDCId, locals.sourceProviderVDCId, locals.isNSXTbacked>>, e,
              "getOrgVDCEdgeGateway")
    /\ UNCHANGED <<vcd, locals, invocation>>

getOrgVDCEdgeGateway ==
    /\ pc = "getOrgVDCEdgeGateway"
    /\ \E e \in Outcomes("Exception", FALSE) :
         /\ Call("getOrgVDCEdgeGateway", <<locals.sourceOrgVDCId>>, e, "getProviderVDCIdTarget")
         /\ Bind("edgeGatewayDetails", vcd.edgeGateways, e)
    /\ UNCHANGED <<vcd, invocation>>

\* as getProviderVDCIdTarget, but the flag returned is dropped: isNSXTbacked
\* keeps the flag of the source provider VDC
getProviderVDCIdTargetFlagDropped ==
    /\ pc = "getProviderVDCIdTarget"
    /\ \E e \in Outcomes("NotFoundError", FALSE) :
         /\ Call("getProviderVDCId", <<NSXTProviderVDCName>>, e, "getOrgVDCDetailsTarget")
         /\ Bind("targetProviderVDCId", getProviderVDCId(NSXTProviderVDCName)[1], e)
    /\ UNCHANGED <<vcd, invocation>>

getProviderVDCIdTarget ==
    /\ pc = "getProviderVDCIdTarget"
    /\ \E e \in Outcomes("NotFoundError", FALSE) :
         /\ Call("getProviderVDCId", <<NSXTProviderVDCName>>, e, "getOrgVDCDetailsTarget")
         /\ locals' = IF e = NoError
                        THEN [locals EXCEPT !.targetProviderVDCId = getProviderVDCId(NSXTProviderVDCName)[1],
                                            !.isNSXTbacked = getProviderVDCId(NSXTProviderVDCName)[2]]
                        ELSE locals
    /\ UNCHANGED <<vcd, invocation>>

getOrgVDCDetailsTarget ==
    /\ pc = "getOrgVDCDetailsTarget"
    /\ \E e \in Outcomes("NotFoundError", getOrgVDCDetails(targetOrgVDCName) = {}) :
         /\ Call("getOrgVDCDetails", <<locals.orgUrl, targetOrgVDCName, "targetOrgVDC">>, e,
                 "validateOrgVDCNSXbackingTarget")
         /\ \E id \in (IF getOrgVDCDetails(targetOrgVDCName) = {} THEN {None} ELSE getOrgVDCDetails(targetOrgVDCName)) :
              Bind("targetOrgVDCId", id, e)
    /\ UNCHANGED <<vcd, invocation>>

validateOrgVDCNSXbackingTarget ==
    /\ pc = "validateOrgVDCNSXbackingTarget"
    /\ \E e \in Outcomes("ValidationError", BackingMismatch(locals.targetOrgVDCId, locals.isNSXTbacked)) :
         Call("validateOrgVDCNSXbacking",
              <<locals.targetOrgVDCId, locals.targetProviderVDCId, locals.isNSXTbacked>>, e,
              "validateTargetOrgVDCState")
    /\ UNCHANGED <<vcd, locals, invocation>>

\* as validateTargetOrgVDCState, but a failed check is ignored
validateTargetOrgVDCStateIgnored ==
    /\ pc = "validateTargetOrgVDCState"
    /\ \E e \in Outcomes("ValidationError", Disabled(locals.targetOrgVDCId)) :
         /\ calls' = Append(calls, [op |-> "validateTargetOrgVDCState",
                                    args |-> <<locals.targetOrgVDCId>>, raised |-> e])
         /\ pc' = "getOrgVDCNetworks"
         /\ error' = error
    /\ UNCHANGED <<vcd, locals, invocation>>

validateTargetOrgVDCState ==
    /\ pc = "validateTargetOrgVDCState"
    /\ \E e \in Outcomes("ValidationError", Disabled(locals.targetOrgVDCId)) :
         Call("validateTargetOrgVDCState", <<locals.targetOrgVDCId>>, e, "getOrgVDCNetworks")
    /\ UNCHANGED <<vcd, locals, invocation>>

getOrgVDCNetworks ==
    /\ pc = "getOrgVDCNetworks"
    /\ \E e \in Outcomes("Exception", FALSE) :
         /\ Call("getOrgVDCNetworks", <<locals.targetOrgVDCId, "targetOrgVDCNetworks">>, e,
                 "validateVappVMsMediaState")
         /\ Bind("orgVDCNetworkList", vcd.networks, e)
    /\ UNCHANGED <<vcd, invocation>>

\* as validateVappVMsMediaState, but with raiseError=False
validateVappVMsMediaStateLenient ==
    /\ pc = "validateVappVMsMediaState"
    /\ \E e \in Outcomes("ValidationError", MediaViolation(locals.targetOrgVDCId, FALSE)) :
         Call("validateVappVMsMediaState", <<locals.targetOrgVDCId, FALSE>>, e, "migrateCatalogItems")
    /\ UNCHANGED <<vcd, locals, invocation>>

validateVappVMsMediaState ==
    /\ pc = "validateVappVMsMediaState"
    /\ \E e \in Outcomes("ValidationError", MediaViolation(locals.targetOrgVDCId, TRUE)) :
         Call("validateVappVMsMediaState", <<locals.targetOrgVDCId, TRUE>>, e, "migrateCatalogItems")
    /\ UNCHANGED <<vcd, locals, invocation>>

\* as migrateCatalogItems, but a failed migration is ignored
migrateCatalogItemsIgnored ==
    /\ pc = "migrateCatalogItems"
    /\ \E e \in Outcomes("OperationError", FALSE) :
         /\ calls' = Append(calls, [op |-> "migrateCatalogItems",
                                    args |-> <<locals.sourceOrgVDCId, locals.targetOrgVDCId, locals.orgUrl>>,
                                    raised |-> e])
         /\ pc' = "clearBridging"
         /\ error' = error
    /\ UNCHANGED <<vcd, locals, invocation>>

\* as migrateCatalogItems, but the bridging is not cleared afterwards
migrateCatalogItemsThenDelete ==
    /\ pc = "migrateCatalogItems"
    /\ \E e \in Outcomes("OperationError", FALSE) :
         Call("migrateCatalogItems", <<locals.sourceOrgVDCId, locals.targetOrgVDCId, locals.orgUrl>>, e,
              "deleteOrgVDCNetworks")
    /\ UNCHANGED <<vcd, locals, invocation>>

migrateCatalogItems ==
    /\ pc = "migrateCatalogItems"
    /\ \E e \in Outcomes("OperationError", FALSE) :
         Call("migrateCatalogItems", <<locals.sourceOrgVDCId, locals.targetOrgVDCId, locals.orgUrl>>, e,
              "clearBridging")
    /\ UNCHANGED <<vcd, locals, invocation>>

\* as clearBridging, but nothing is called for an empty network list
clearBridgingNonEmpty ==
    /\ pc = "clearBridging"
    /\ IF locals.orgVDCNetworkList = <<>>
         THEN pc' = "deleteOrgVDCNetworks" /\ UNCHANGED <<calls, error>>
         ELSE \E e \in Outcomes("OperationError", FALSE) :
                Call("clearBridging", <<locals.orgVDCNetworkList>>, e, "deleteOrgVDCNetworks")
    /\ UNCHANGED <<vcd, locals, invocation>>

clearBridging ==
    /\ pc = "clearBridging"
    /\ \E e \in Outcomes("OperationError", FALSE) :
         Call("clearBridging", <<locals.orgVDCNetworkList>>, e, "deleteOrgVDCNetworks")
    /\ UNCHANGED <<vcd, locals, invocation>>

\* as deleteOrgVDCNetworks, but a failed deletion is tried again
deleteOrgVDCNetworksRetried ==
    /\ pc = "deleteOrgVDCNetworks"
    /\ \E e \in Outcomes("OperationError", FALSE) :
         /\ calls' = Append(calls, [op |-> "deleteOrgVDCNetworks", args |-> <<locals.sourceOrgVDCId>>,
                                    raised |-> e])
         /\ pc' = IF e = NoError THEN "deleteNsxVBackedOrgVDCEdgeGateways" ELSE "deleteOrgVDCNetworks"
         /\ error' = error
    /\ UNCHANGED <<vcd, locals, invocation>>

deleteOrgVDCNetworks ==
    /\ pc = "deleteOrgVDCNetworks"
    /\ \E e \in Outcomes("OperationError", FALSE) :
         Call("deleteOrgVDCNetworks", <<locals.sourceOrgVDCId>>, e, "deleteNsxVBackedOrgVDCEdgeGateways")
    /\ UNCHANGED <<vcd, locals, invocation>>

\* as deleteNsxVBackedOrgVDCEdgeGateways, but the renames follow at once: the
\* source Org VDC is not deleted
deleteNsxVBackedOrgVDCEdgeGatewaysThenRename ==
    /\ pc = "deleteNsxVBackedOrgVDCEdgeGateways"
    /\ \E e \in Outcomes("OperationError", FALSE) :
         /\ Call("deleteNsxVBackedOrgVDCEdgeGateways", <<locals.sourceOrgVDCId>>, e,
                 "renameTargetOrgVDCNetworks")
         /\ vcd' = IF e = NoError THEN EdgeGatewaysDeleted(vcd) ELSE vcd
    /\ UNCHANGED <<locals, invocation>>

deleteNsxVBackedOrgVDCEdgeGateways ==
    /\ pc = "deleteNsxVBackedOrgVDCEdgeGateways"
    /\ \E e \in Outcomes("OperationError", FALSE) :
         /\ Call("deleteNsxVBackedOrgVDCEdgeGateways", <<locals.sourceOrgVDCId>>, e, "deleteOrgVDC")
         /\ vcd' = IF e = NoError THEN EdgeGatewaysDeleted(vcd) ELSE vcd
    /\ UNCHANGED <<locals, invocation>>

\* as deleteOrgVDC, but called with the id of the target Org VDC
deleteOrgVDCOfTarget ==
    /\ pc = "deleteOrgVDC"
    /\ \E e \in Outcomes("OperationError", FALSE) :
         /\ Call("deleteOrgVDC", <<locals.targetOrgVDCId>>, e, "renameTargetOrgVDCNetworks")
         /\ vcd' = IF e = NoError THEN OrgVDCDeleted(vcd, locals.targetOrgVDCId) ELSE vcd
    /\ UNCHANGED <<locals, invocation>>

deleteOrgVDC ==
    /\ pc = "deleteOrgVDC"
    /\ \E e \in Outcomes("OperationError", FALSE) :
         /\ Call("deleteOrgVDC", <<locals.sourceOrgVDCId>>, e, "renameTargetOrgVDCNetworks")
         /\ vcd' = IF e = NoError THEN OrgVDCDeleted(vcd, locals.sourceOrgVDCId) ELSE vcd
    /\ UNCHANGED <<locals, invocation>>

renameTargetOrgVDCNetworks ==
    /\ pc = "renameTargetOrgVDCNetworks"
    /\ \E e \in Outcomes("OperationError", FALSE) :
         Call("renameTargetOrgVDCNetworks", <<locals.targetOrgVDCId>>, e, "renameOrgVDC")
    /\ UNCHANGED <<vcd, locals, invocation>>

renameOrgVDC ==
    /\ pc = "renameOrgVDC"
    /\ \E e \in Outcomes("OperationError", FALSE) :
         /\ Call("renameOrgVDC", <<sourceOrgVDCName, locals.targetOrgVDCId>>, e, "updateSourceExternalNetwork")
         /\ vcd' = IF e = NoError THEN OrgVDCRenamed(vcd, sourceOrgVDCName, locals.targetOrgVDCId) ELSE vcd
    /\ UNCHANGED <<locals, invocation>>

\* line 137: the uplinks of the first edge gateway that are named name;
\* ['values'][0] of an empty list raises IndexError
SourceExternalNetwork(details, name) ==
    IF Len(details.values) = 0
      THEN "IndexError"
      ELSE SelectSeq(details.values[1].edgeGatewayUplinks, LAMBDA uplink : uplink.uplinkName = name)

\* lines 137-144: what the reconciliation of the external network does with
\* the edge gateway payload: it raises IndexError, or does nothing, or
\* updates the external network with the ranges of the first subnet of the
\* first uplink found
IPPoolUpdate(details, name) ==
    LET sourceExternalNetwork == SourceExternalNetwork(details, name) IN
    IF sourceExternalNetwork = "IndexError"
      THEN [do |-> "raise", ipRanges |-> <<>>]
    ELSE IF sourceExternalNetwork = <<>>
      THEN [do |-> "skip", ipRanges |-> <<>>]
    ELSE IF Len(sourceExternalNetwork[1].subnets.values) = 0
      THEN [do |-> "raise", ipRanges |-> <<>>]
    ELSE IF sourceExternalNetwork[1].subnets.values[1].ipRanges.values = <<>>
      THEN [do |-> "skip", ipRanges |-> <<>>]
    ELSE [do |-> "call", ipRanges |-> sourceExternalNetwork[1].subnets.values[1].ipRanges.values]

\* as updateSourceExternalNetwork, but the edge gateways are read again at
\* this point and the payload read now is the one used
updateSourceExternalNetworkReread ==
    /\ pc = "updateSourceExternalNetwork"
    /\ calls' = Append(calls, [op |-> "getOrgVDCEdgeGateway", args |-> <<locals.sourceOrgVDCId>>,
                               raised |-> NoError])
    /\ IF IPPoolUpdate(vcd.edgeGateways, sourceExternalNetworkName).do = "raise"
         THEN pc' = Raised /\ error' = "IndexError"
         ELSE pc' = "deleteSession" /\ error' = error
    /\ UNCHANGED <<vcd, locals, invocation>>

\* lines 136-145
updateSourceExternalNetwork ==
    /\ pc = "updateSourceExternalNetwork"
    /\ LET upd == IPPoolUpdate(locals.edgeGatewayDetails, sourceExternalNetworkName) IN
         \/ /\ upd.do = "raise"
            /\ pc' = Raised
            /\ error' = "IndexError"
            /\ calls' = calls
         \/ /\ upd.do = "skip"
            /\ pc' = "deleteSession"
            /\ UNCHANGED <<error, calls>>
         \/ /\ upd.do = "call"
            /\ \E e \in Outcomes("OperationError", FALSE) :
                 Call("updateSourceExternalNetwork", <<sourceExternalNetworkName, upd.ipRanges>>, e,
                      "deleteSession")
    /\ UNCHANGED <<vcd, locals, invocation>>

\* as deleteSession, but in a finally clause: the logout is also made when a
\* statement of the try block raised
deleteSessionFinally ==
    /\ pc \in {"deleteSession", Raised}
    /\ ~ (\E i \in 1..Len(calls) : calls[i].op = "deleteSession")
    /\ \E e \in Outcomes("Exception", FALSE) :
         /\ calls' = Append(calls, [op |-> "deleteSession", args |-> <<>>, raised |-> e])
         /\ pc' = IF pc = Raised \/ e # NoError THEN Raised ELSE Returned
         /\ error' = IF pc = Raised THEN error ELSE e
    /\ UNCHANGED <<vcd, locals, invocation>>

\* line 149, the last statement of the try block
deleteSession ==
    /\ pc = "deleteSession"
    /\ \E e \in Outcomes("Exception", FALSE) :
         Call("deleteSession", <<>>, e, Returned)
    /\ UNCHANGED <<vcd, locals, invocation>>

Next ==
    \/ vcdLogin
    \/ getComputeManagers
    \/ getOrgUrl
    \/ getProviderVDCIdSource
    \/ getOrgVDCDetailsSource
    \/ validateOrgVDCNSXbackingSource
    \/ getOrgVDCEdgeGateway
    \/ getProviderVDCIdTarget
    \/ getOrgVDCDetailsTarget
    \/ validateOrgVDCNSXbackingTarget
    \/ validateTargetOrgVDCState
    \/ getOrgVDCNetworks
    \/ validateVappVMsMediaState
    \/ migrateCatalogItems
    \/ clearBridging
    \/ deleteOrgVDCNetworks
    \/ deleteNsxVBackedOrgVDCEdgeGateways
    \/ deleteOrgVDC
    \/ renameTargetOrgVDCNetworks
    \/ renameOrgVDC
    \/ updateSourceExternalNetwork
    \/ deleteSession

Spec == Init /\ [][Next]_vars

\* run() is invoked again, with the same configuration, after it returned
runAgain ==
    /\ pc = Returned
    /\ invocation < MaxRuns
    /\ invocation' = invocation + 1
    /\ pc' = "vcdLogin"
    /\ calls' = <<>>
    /\ error' = NoError
    /\ locals' = InitLocals
    /\ UNCHANGED vcd

NextRerun ==
    \/ Next
    \/ runAgain

SpecRerun == Init /\ [][NextRerun]_vars

SpecIP == InitIP /\ [][Next]_vars

----------------------------------------------------------------------------
(* The call log *)

CallIdx == 1..Len(calls)

Invoked(op) == \E i \in CallIdx : calls[i].op = op

\* op was called with first argument arg and returned, before the i-th call
ReturnedBefore(i, op, arg) ==
    \E j \in 1..(i - 1) :
        /\ calls[j].op = op
        /\ calls[j].raised = NoError
        /\ calls[j].args[1] = arg

\* op returned before the i-th call
DoneBefore(i, op) ==
    \E j \in 1..(i - 1) : calls[j].op = op /\ calls[j].raised = NoError

SourceId == "vdcS"
TargetId == "vdcT"

Deletions == {"deleteOrgVDCNetworks", "deleteNsxVBackedOrgVDCEdgeGateways", "deleteOrgVDC"}

Mutations ==
    Deletions \cup {"migrateCatalogItems", "clearBridging", "renameTargetOrgVDCNetworks",
                    "renameOrgVDC", "updateSourceExternalNetwork"}

\* the operations of the statements of run(), in program order
StepOps ==
    << "vcdLogin", "getComputeManagers", "getOrgUrl", "getProviderVDCId", "getOrgVDCDetails",
       "validateOrgVDCNSXbacking", "getOrgVDCEdgeGateway", "getProviderVDCId", "getOrgVDCDetails",
       "validateOrgVDCNSXbacking", "validateTargetOrgVDCState", "getOrgVDCNetworks",
       "validateVappVMsMediaState", "migrateCatalogItems", "clearBridging", "deleteOrgVDCNetworks",
       "deleteNsxVBackedOrgVDCEdgeGateways", "deleteOrgVDC", "renameTargetOrgVDCNetworks",
       "renameOrgVDC", "updateSourceExternalNetwork", "deleteSession" >>

\* the same when the external network is not updated
StepOpsSkip == SelectSeq(StepOps, LAMBDA op : op # "updateSourceExternalNetwork")

IsPrefixOps(full) ==
    /\ Len(calls) <= Len(full)
    /\ \A i \in CallIdx : calls[i].op = full[i]

----------------------------------------------------------------------------
(* C1: no deletion on the source Org VDC (deleteOrgVDCNetworks,
   deleteNsxVBackedOrgVDCEdgeGateways, deleteOrgVDC) is invoked unless the
   backing validation of the source Org VDC, the backing validation of the
   target Org VDC, the enabled check and the media check of the target and
   the catalog migration have all returned before; when the catalog migration
   raised, no deletion has been invoked. *)
C1_DeletionsGated ==
    /\ \A i \in CallIdx :
         calls[i].op \in Deletions =>
           /\ ReturnedBefore(i, "validateOrgVDCNSXbacking", SourceId)
           /\ ReturnedBefore(i, "validateOrgVDCNSXbacking", TargetId)
           /\ ReturnedBefore(i, "validateTargetOrgVDCState", TargetId)
           /\ ReturnedBefore(i, "validateVappVMsMediaState", TargetId)
           /\ DoneBefore(i, "migrateCatalogItems")
    /\ (\E j \in CallIdx : calls[j].op = "migrateCatalogItems" /\ calls[j].raised # NoError)
         => \A i \in CallIdx : calls[i].op \notin Deletions

\* the three deletions have been invoked
C1_Witness ==
    /\ Invoked("deleteOrgVDCNetworks")
    /\ Invoked("deleteNsxVBackedOrgVDCEdgeGateways")
    /\ Invoked("deleteOrgVDC")

(* C2: clearBridging, deleteOrgVDCNetworks, deleteNsxVBackedOrgVDCEdgeGateways
   and deleteOrgVDC are called in this order: each is invoked only after the
   one before it has returned, and a run that returned has called all four. *)
TearDown ==
    << "clearBridging", "deleteOrgVDCNetworks", "deleteNsxVBackedOrgVDCEdgeGateways", "deleteOrgVDC" >>

C2_TearDownOrder ==
    /\ \A i \in CallIdx : \A k \in 2..Len(TearDown) :
         calls[i].op = TearDown[k] =>
           \A m \in 1..(k - 1) : DoneBefore(i, TearDown[m])
    /\ \A i \in CallIdx : \A j \in CallIdx : \A k \in 1..Len(TearDown) : \A m \in 1..Len(TearDown) :
         (calls[i].op = TearDown[k] /\ calls[j].op = TearDown[m] /\ k < m) => i < j
    /\ pc = Returned => \A k \in 1..Len(TearDown) : Invoked(TearDown[k])

\* a run that returned, with the four calls in its log
C2_Witness ==
    /\ pc = Returned
    /\ \A k \in 1..Len(TearDown) : Invoked(TearDown[k])

(* C3: when a remote call raises, run() ends with exactly that exception, the
   call is the last one made, every call before it returned, and the calls
   made are the operations of the statements up to it in program order:
   nothing after it and no undoing call. *)
C3_FailFast ==
    \A i \in CallIdx :
        calls[i].raised # NoError =>
          /\ i = Len(calls)
          /\ pc = Raised
          /\ error = calls[i].raised
          /\ \A j \in 1..(i - 1) : calls[j].raised = NoError
          /\ (IsPrefixOps(StepOps) \/ IsPrefixOps(StepOpsSkip))

\* the deletion of the source Org VDC raised after its networks and edge
\* gateways were deleted
C3_Witness ==
    /\ pc = Raised
    /\ Len(calls) > 0
    /\ calls[Len(calls)].op = "deleteOrgVDC"
    /\ calls[Len(calls)].raised = "OperationError"
    /\ error = "OperationError"

(* C4: run() gets past the backing validation of the source Org VDC only
   when the source provider VDC is not NSX-T backed, and past the one of the
   target Org VDC only when the target provider VDC is NSX-T backed; when the
   source provider VDC is NSX-T backed, the validation of the source Org VDC
   raises and no later statement makes a call. *)
C4_BackingGates ==
    /\ \A i \in CallIdx :
         (calls[i].op = "validateOrgVDCNSXbacking" /\ calls[i].raised = NoError) =>
           /\ calls[i].args[1] = SourceId => ~ vcd.providerVDCs[NSXVProviderVDCName]
           /\ calls[i].args[1] = TargetId => vcd.providerVDCs[NSXTProviderVDCName]
    /\ vcd.providerVDCs[NSXVProviderVDCName] =>
         /\ Len(calls) <= 6
         /\ pc # Returned

(* C5: when the backing of the source Org VDC does not match its provider
   VDC, run() does not return, the backing validation of the source Org VDC,
   once called, raises ValidationError and run() ends with it, and no
   mutating call is ever made. *)
SourceMismatch == vcd.orgVDCs[SourceId].nsxt # vcd.providerVDCs[NSXVProviderVDCName]

C5_SourceMismatchNoMutation ==
    SourceMismatch =>
      /\ pc # Returned
      /\ \A i \in CallIdx : calls[i].op \notin Mutations
      /\ Invoked("validateOrgVDCNSXbacking") =>
           /\ calls[Len(calls)].op = "validateOrgVDCNSXbacking"
           /\ calls[Len(calls)].args[1] = SourceId
           /\ calls[Len(calls)].raised = "ValidationError"
           /\ pc = Raised
           /\ error = "ValidationError"

\* the validation of a mismatching source Org VDC was called and run() ended
C5_Witness ==
    /\ SourceMismatch
    /\ Invoked("validateOrgVDCNSXbacking")
    /\ pc = Raised

(* C6: when the target Org VDC is disabled, run() does not return, the
   enabled check, once called, raises ValidationError and run() ends with it,
   and none of migrateCatalogItems, clearBridging, the deletions and the
   renames is ever invoked. *)
TargetDisabled == ~ vcd.orgVDCs[TargetId].enabled

C6_DisabledTargetStops ==
    TargetDisabled =>
      /\ pc # Returned
      /\ \A i \in CallIdx :
           calls[i].op \notin Deletions \cup {"migrateCatalogItems", "clearBridging",
                                               "renameTargetOrgVDCNetworks", "renameOrgVDC"}
      /\ Invoked("validateTargetOrgVDCState") =>
           /\ Len(calls) = 11
           /\ calls[11].op = "validateTargetOrgVDCState"
           /\ calls[11].raised = "ValidationError"
           /\ pc = Raised
           /\ error = "ValidationError"

\* the enabled check of a disabled target Org VDC was called and run() ended
C6_Witness ==
    /\ TargetDisabled
    /\ Invoked("validateTargetOrgVDCState")
    /\ pc = Raised

(* C7: the media check is called on the target Org VDC with raiseError set,
   and when media is attached to a VM of the target Org VDC, run() does not
   return, the media check, once called, raises ValidationError and run()
   ends with it, and neither migrateCatalogItems nor clearBridging is ever
   invoked. *)
C7_MediaGate ==
    /\ \A i \in CallIdx :
         calls[i].op = "validateVappVMsMediaState" => calls[i].args = <<TargetId, TRUE>>
    /\ vcd.media =>
         /\ pc # Returned
         /\ ~ Invoked("migrateCatalogItems")
         /\ ~ Invoked("clearBridging")
         /\ Invoked("validateVappVMsMediaState") =>
              /\ calls[Len(calls)].op = "validateVappVMsMediaState"
              /\ calls[Len(calls)].raised = "ValidationError"
              /\ pc = Raised
              /\ error = "ValidationError"

\* the media check was called with media attached and run() ended
C7_Witness ==
    /\ vcd.media
    /\ Invoked("validateVappVMsMediaState")
    /\ pc = Raised

(* C8: when every statement before the logout succeeded and deleteSession
   raises, run() still returns without error. *)
C8_LogoutBestEffort ==
    \A i \in CallIdx :
        (calls[i].op = "deleteSession" /\ calls[i].raised # NoError) =>
          /\ pc = Returned
          /\ error = NoError

----------------------------------------------------------------------------
(* The edge gateway payload *)

\* the uplinks of every edge gateway of the payload p
AllUplinks(p) ==
    UNION { { p.values[g].edgeGatewayUplinks[u] : u \in 1..Len(p.values[g].edgeGatewayUplinks) }
            : g \in 1..Len(p.values) }

\* those named after the configured external network
MatchingUplinks(p) == {u \in AllUplinks(p) : u.uplinkName = sourceExternalNetworkName}

\* the non-empty lists of IP ranges the uplink u carries
RangesOf(u) == { u.subnets.values[k].ipRanges.values : k \in 1..Len(u.subnets.values) } \ {<<>>}

\* the payload run() holds: what getOrgVDCEdgeGateway returned at line 82
Captured == locals.edgeGatewayDetails

UpdateCalls == {i \in CallIdx : calls[i].op = "updateSourceExternalNetwork"}

\* the statements before the reconciliation returned and the reconciliation
\* is over
ReconciliationOver ==
    /\ \E i \in CallIdx : calls[i].op = "renameOrgVDC" /\ calls[i].raised = NoError
    /\ pc # "updateSourceExternalNetwork"

(* C9: when the payload read from the source Org VDC has no uplink named
   after the configured external network, or its uplinks of that name carry
   no IP ranges (a payload without edge gateway and an uplink without subnet
   included), updateSourceExternalNetwork is not called, the reconciliation
   raises nothing and run() goes on to the logout. *)
C9_ReconciliationSkipped ==
    (ReconciliationOver /\ \A u \in MatchingUplinks(Captured) : RangesOf(u) = {}) =>
      /\ UpdateCalls = {}
      /\ error # "IndexError"
      /\ pc \in {"deleteSession", Returned} \/ Invoked("deleteSession")

(* C10: when the statements before the reconciliation succeeded and the
   payload holds an uplink named after the configured external network that
   carries IP ranges, updateSourceExternalNetwork is called exactly once,
   with the configured name and with IP ranges of such an uplink. *)
C10_ReconciliationCalled ==
    (ReconciliationOver /\ \E u \in MatchingUplinks(Captured) : RangesOf(u) # {}) =>
      /\ Cardinality(UpdateCalls) = 1
      /\ \A i \in UpdateCalls :
           /\ calls[i].args[1] = sourceExternalNetworkName
           /\ \E u \in MatchingUplinks(Captured) : calls[i].args[2] \in RangesOf(u)

----------------------------------------------------------------------------
\* the call log holds exactly the operations full, in this order
OpsAre(full) ==
    /\ Len(calls) = Len(full)
    /\ \A i \in CallIdx : calls[i].op = full[i]

(* C11: when every remote call returned, run() returns without error and the
   call log is exactly the operations of the statements of run() in program
   order (with or without the conditional update of the external network). *)
C11_AllStepsInOrder ==
    (pc \in {Returned, Raised} /\ \A i \in CallIdx : calls[i].raised = NoError) =>
      /\ pc = Returned
      /\ error = NoError
      /\ OpsAre(StepOps) \/ OpsAre(StepOpsSkip)

(* C12: renameTargetOrgVDCNetworks and renameOrgVDC are invoked only after
   the three deletions on the source Org VDC returned, so at no time do two
   existing Org VDCs carry the name of the source Org VDC; the target is
   looked up under that name followed by '-t' and is renamed to exactly that
   name. *)
Renames == {"renameTargetOrgVDCNetworks", "renameOrgVDC"}

CarryingSourceName ==
    {id \in OrgVDCIds : vcd.orgVDCs[id].exists /\ vcd.orgVDCs[id].name = sourceOrgVDCName}

C12_NoNameCollision ==
    /\ \A i \in CallIdx :
         calls[i].op \in Renames =>
           \A d \in Deletions : ReturnedBefore(i, d, SourceId)
    /\ Cardinality(CarryingSourceName) <= 1
    /\ \A i \in CallIdx :
         (calls[i].op = "getOrgVDCDetails" /\ calls[i].args[3] = "targetOrgVDC") =>
           calls[i].args[2] = sourceOrgVDCName \o <<"-t">>
    /\ \A i \in CallIdx :
         calls[i].op = "renameOrgVDC" =>
           /\ calls[i].args = <<sourceOrgVDCName, TargetId>>
           /\ calls[i].raised = NoError => CarryingSourceName = {TargetId}

\* the target Org VDC was renamed after the source Org VDC was deleted
C12_Witness ==
    /\ \E i \in CallIdx : calls[i].op = "renameOrgVDC" /\ calls[i].raised = NoError
    /\ ~ vcd.orgVDCs[SourceId].exists
    /\ vcd.orgVDCs[TargetId].name = sourceOrgVDCName

(* C13: the edge gateways of the source Org VDC are read once, as the 7th
   call, before any deletion, and never after their deletion; until they are
   deleted the payload run() holds is the one the remote side holds, and the
   IP ranges passed to updateSourceExternalNetwork are ranges of that
   payload, passed when the remote side holds no edge gateway any more. *)
EdgeGatewayReads == {i \in CallIdx : calls[i].op = "getOrgVDCEdgeGateway"}

EdgeGatewaysGone ==
    \E i \in CallIdx :
        calls[i].op = "deleteNsxVBackedOrgVDCEdgeGateways" /\ calls[i].raised = NoError

C13_EdgeGatewaysReadOnce ==
    /\ Cardinality(EdgeGatewayReads) <= 1
    /\ \A i \in EdgeGatewayReads :
         /\ i = 7
         /\ \A j \in CallIdx : calls[j].op \in Deletions => i < j
    /\ \A i \in EdgeGatewayReads :
         (calls[i].raised = NoError /\ ~ EdgeGatewaysGone) => Captured = vcd.edgeGateways
    /\ \A i \in UpdateCalls :
         /\ EdgeGatewayReads = {7}
         /\ EdgeGatewaysGone
         /\ vcd.edgeGateways = Payload(<<>>)
         /\ calls[i].args[2] # <<>>
         /\ \E u \in MatchingUplinks(Captured) : calls[i].args[2] \in RangesOf(u)

\* the external network was updated after the edge gateways were deleted
C13_Witness ==
    /\ UpdateCalls # {}
    /\ EdgeGatewaysGone
    /\ vcd.edgeGateways = Payload(<<>>)
    /\ Len(Captured.values) > 0

(* C14: in one run() each mutating operation is invoked at most once, and an
   operation that raised is not invoked again. *)
CallsOf(op) == {i \in CallIdx : calls[i].op = op}

C14_NoRetry ==
    /\ \A op \in Mutations : Cardinality(CallsOf(op)) <= 1
    /\ \A i \in CallIdx : \A j \in CallIdx :
         (i < j /\ calls[i].raised # NoError) => calls[j].op # calls[i].op

\* a run that returned after invoking every mutating operation
C14_Witness ==
    /\ pc = Returned
    /\ \A op \in Mutations : Cardinality(CallsOf(op)) = 1

(* C15: clearBridging is invoked with exactly the network list that
   getOrgVDCNetworks returned for the target Org VDC, and it is invoked once
   the catalog migration returned, also when that list is empty. *)
C15_BridgingOfTargetNetworks ==
    /\ \A i \in CallIdx :
         calls[i].op = "clearBridging" =>
           /\ calls[i].args = <<vcd.networks>>
           /\ \E j \in 1..(i - 1) :
                /\ calls[j].op = "getOrgVDCNetworks"
                /\ calls[j].args[1] = TargetId
                /\ calls[j].raised = NoError
    /\ ((\E i \in CallIdx : calls[i].op = "migrateCatalogItems" /\ calls[i].raised = NoError)
          /\ pc # "clearBridging")
         => Invoked("clearBridging")

\* clearBridging was invoked with the empty network list of the target
C15_Witness ==
    /\ vcd.networks = <<>>
    /\ \E i \in CallIdx : calls[i].op = "clearBridging" /\ calls[i].args = << <<>> >>

(* C16: the deletions are invoked only with the id resolved for the source
   Org VDC and the renames only with the id resolved for the target Org VDC;
   the target Org VDC is never passed to a deletion and is never deleted. *)
\* the Org VDC of that name was resolved to id before the i-th call
ResolvedBefore(i, name, id) ==
    \E j \in 1..(i - 1) :
        /\ calls[j].op = "getOrgVDCDetails"
        /\ calls[j].args[2] = name
        /\ calls[j].raised = NoError
        /\ locals[calls[j].args[3] \o "Id"] = id

C16_DeleteSourceRenameTarget ==
    /\ \A i \in CallIdx :
         calls[i].op \in Deletions =>
           /\ calls[i].args = <<SourceId>>
           /\ ResolvedBefore(i, sourceOrgVDCName, calls[i].args[1])
    /\ \A i \in CallIdx :
         calls[i].op = "renameTargetOrgVDCNetworks" =>
           /\ calls[i].args = <<TargetId>>
           /\ ResolvedBefore(i, targetOrgVDCName, calls[i].args[1])
    /\ \A i \in CallIdx :
         calls[i].op = "renameOrgVDC" =>
           /\ calls[i].args[2] = TargetId
           /\ ResolvedBefore(i, targetOrgVDCName, calls[i].args[2])
    /\ vcd.orgVDCs[TargetId].exists

\* the source Org VDC was deleted and the target Org VDC renamed
C16_Witness ==
    /\ \E i \in CallIdx : calls[i].op = "deleteOrgVDC" /\ calls[i].raised = NoError
    /\ \E i \in CallIdx : calls[i].op = "renameOrgVDC" /\ calls[i].raised = NoError
    /\ ~ vcd.orgVDCs[SourceId].exists

(* C17: the backing validation of the source Org VDC (6th call) receives the
   source Org VDC id, the source provider VDC id and the flag of the source
   provider VDC; the one of the target Org VDC (10th call) receives the
   target Org VDC id, the target provider VDC id and the flag of the target
   provider VDC. *)
C17_BackingValidationArguments ==
    \A i \in CallIdx :
        calls[i].op = "validateOrgVDCNSXbacking" =>
          \/ /\ i = 6
             /\ calls[i].args = <<SourceId, ProviderVDCIdOf(NSXVProviderVDCName),
                                  vcd.providerVDCs[NSXVProviderVDCName]>>
          \/ /\ i = 10
             /\ calls[i].args = <<TargetId, ProviderVDCIdOf(NSXTProviderVDCName),
                                  vcd.providerVDCs[NSXTProviderVDCName]>>

\* both validations were called and the two provider VDCs report different
\* backings
C17_Witness ==
    /\ Cardinality(CallsOf("validateOrgVDCNSXbacking")) = 2
    /\ vcd.providerVDCs[NSXVProviderVDCName] # vcd.providerVDCs[NSXTProviderVDCName]

\* run() is over
RunOver == pc \in {Returned, Raised}

\* every statement before the logout completed without an error
StepsCompleted ==
    /\ error # "IndexError"
    /\ \A j \in CallIdx : calls[j].op # "deleteSession" => calls[j].raised = NoError

(* C18: deleteSession is invoked only as the last call, after every earlier
   call returned; when run() is over it has been invoked if and only if every
   statement before it completed without an error; when the login returned and
   a later statement failed, deleteSession has not been invoked. *)
C18_LogoutOnlyAfterSuccess ==
    /\ \A i \in CallIdx :
         calls[i].op = "deleteSession" =>
           /\ i = Len(calls)
           /\ Len(calls) \in {Len(StepOps), Len(StepOpsSkip)}
           /\ \A j \in 1..(i - 1) : calls[j].raised = NoError
    /\ RunOver => (Invoked("deleteSession") <=> StepsCompleted)
    /\ (RunOver /\ Len(calls) >= 1 /\ calls[1].raised = NoError /\ ~ StepsCompleted)
         => ~ Invoked("deleteSession")

\* the login returned, a later call raised, run() ended without the logout
C18_Witness ==
    /\ pc = Raised
    /\ Len(calls) >= 2
    /\ calls[1].raised = NoError
    /\ calls[Len(calls)].raised # NoError
    /\ calls[Len(calls)].op # "deleteSession"
    /\ ~ Invoked("deleteSession")

(* C19: when run() is invoked again after an invocation that returned, the
   second invocation ends at or before the backing validation of the source
   Org VDC (its 6th call), which raises, and no mutating operation is
   invoked. *)
C19_RerunHarmless ==
    invocation >= 2 =>
      /\ Len(calls) <= 6
      /\ (Len(calls) = 6 => calls[6].raised # NoError)
      /\ \A i \in CallIdx : calls[i].op \notin Mutations

====
